---- MODULE Spec2Model ----
(***************************************************************************)
(* Model of packages/fit-processor/main.py: the FastAPI service with the   *)
(* two POST handlers process_fit_file (/process-fit) and                   *)
(* process_uploaded_file (/process-upload), and the helper parse_fit_file  *)
(* that iterates the frames produced by fitdecode.FitReader.               *)
(*                                                                         *)
(* The fitdecode library is an external collaborator.  What it hands to    *)
(* parse_fit_file is modelled as an input: a stream of frames (header,     *)
(* definition and data frames, crc) that may end in a raised error.        *)
(***************************************************************************)
EXTENDS Integers, Sequences, FiniteSets, TLC

\* ---------------------------------------------------------------- bounds
MaxFrames == 2     \* frames between the header and the crc of one file
MaxTs == 1         \* largest timestamp carried by a record frame
MaxClock == 2      \* largest value of the wall clock (datetime.now())
LogDepth == 2      \* completed /process-fit calls that are remembered

\* ------------------------------------------------------------- filenames
\* A filename is None or a string; a string is a sequence of characters.
DotFit == <<".", "f", "i", "t">>

NameStrings ==
    { <<"a", ".", "f", "i", "t">>,
      <<".", "f", "i", "t">>,
      <<"a", ".", "F", "I", "T">>,
      <<"a", ".", "f", "i", "t", ".", "g", "z">>,
      <<"a", ".", "g", "p", "x">>,
      <<>> }

NoneName == [none |-> TRUE, s |-> <<>>]

Filenames == {NoneName} \cup { [none |-> FALSE, s |-> n] : n \in NameStrings }

\* str.endswith
endswith(s, suffix) ==
    /\ Len(s) >= Len(suffix)
    /\ SubSeq(s, Len(s) - Len(suffix) + 1, Len(s)) = suffix

\* ---------------------------------------------------------------- frames
FIT_FRAME_HEADER == "FIT_FRAME_HEADER"
FIT_FRAME_DEFINITION == "FIT_FRAME_DEFINITION"
FIT_FRAME_DATA == "FIT_FRAME_DATA"
FIT_FRAME_CRC == "FIT_FRAME_CRC"

HandledNames == {"file_id", "activity", "session", "lap", "record"}
OtherNames == {"event", "device_info"}

HeaderFrame == [frame_type |-> FIT_FRAME_HEADER, name |-> "", timestamp |-> 0]
CrcFrame == [frame_type |-> FIT_FRAME_CRC, name |-> "", timestamp |-> 0]

BodyFrames ==
    { [frame_type |-> FIT_FRAME_DEFINITION, name |-> "record", timestamp |-> 0] }
    \cup { [frame_type |-> FIT_FRAME_DATA, name |-> n, timestamp |-> 0] :
             n \in (HandledNames \ {"record"}) \cup OtherNames }
    \cup { [frame_type |-> FIT_FRAME_DATA, name |-> "record", timestamp |-> t] :
             t \in 0..MaxTs }

Bodies == UNION { [1..n -> BodyFrames] : n \in 0..MaxFrames }

\* An uploaded file: its name, the frames of its body, and where the reader
\* raises: "none" (never), "header" (on the first frame), "body" (after the
\* body, before the crc).
Files ==
    { [filename |-> fn, body |-> b, fault |-> "none"] : fn \in Filenames, b \in Bodies }
    \cup { [filename |-> fn, body |-> b, fault |-> "body"] : fn \in Filenames, b \in Bodies }
    \cup { [filename |-> fn, body |-> <<>>, fault |-> "header"] : fn \in Filenames }

NoFile == [filename |-> NoneName, body |-> <<>>, fault |-> "none"]

\* The frames the FitReader iterator yields for the file before it stops or
\* raises.
Stream(f) ==
    IF f.fault = "header" THEN <<>>
    ELSE IF f.fault = "body" THEN <<HeaderFrame>> \o f.body
    ELSE <<HeaderFrame>> \o f.body \o <<CrcFrame>>

\* len(content), counted in frames
FileSize(f) == Len(f.body)

\* ------------------------------------------------------------- responses
EmptyDict == <<>>

NewActivityData ==
    [metadata |-> EmptyDict, records |-> <<>>, laps |-> <<>>, sessions |-> <<>>]

NoResponse == [status |-> 0]

UploadOk(data) ==
    [status |-> 200, success |-> TRUE, data |-> data,
     message |-> "File processed successfully"]

HTTPException(code, detail) == [status |-> code, detail |-> detail]

NoExc == [type |-> "none"]
NotFitExc ==
    [type |-> "HTTPException", status_code |-> 400,
     detail |-> "File must be a .fit file"]
AttributeError == [type |-> "AttributeError"]
ReadError == [type |-> "ReadError"]
ParseExc == [type |-> "Exception", prefix |-> "Failed to parse FIT file: "]

UploadError(e) ==
    HTTPException(500, [prefix |-> "Error processing file: ", cause |-> e])

\* ----------------------------------------------------------------- state
VARIABLES
    pc,             \* position of the /process-upload handler
    file,           \* the UploadFile of the request being served
    contentRead,    \* file.read() has returned the whole content
    parseCalled,    \* parse_fit_file has been entered
    idx,            \* frames consumed by the for loop of parse_fit_file
    activity_data,  \* the dictionary parse_fit_file builds
    exc,            \* the exception in flight to the except clause
    response,       \* the response of the /process-upload request
    clock,          \* datetime.now()
    fit_log         \* the last LogDepth completed /process-fit calls

uploadVars == <<pc, file, contentRead, parseCalled, idx, activity_data, exc, response>>
fitVars == <<clock, fit_log>>
vars == <<pc, file, contentRead, parseCalled, idx, activity_data, exc, response,
          clock, fit_log>>

Init ==
    /\ pc = "idle"
    /\ file = NoFile
    /\ contentRead = FALSE
    /\ parseCalled = FALSE
    /\ idx = 0
    /\ activity_data = NewActivityData
    /\ exc = NoExc
    /\ response = NoResponse
    /\ clock = 0
    /\ fit_log = <<>>

\* ------------------------------------------------ POST /process-upload
\* A request arrives with an uploaded file.
ReceiveUpload ==
    /\ pc = "idle"
    /\ pc' = "check"
    /\ file' \in Files
    /\ UNCHANGED <<contentRead, parseCalled, idx, activity_data, exc, response>>
    /\ UNCHANGED fitVars

\* '.fit' in s
contains(s, part) ==
    \E i \in 1..(Len(s) - Len(part) + 1) : SubSeq(s, i, i + Len(part) - 1) = part

\* Variant of CheckFilename that tests '.fit' in file.filename.
CheckFilename_Contains ==
    /\ pc = "check"
    /\ IF file.filename.none
         THEN /\ exc' = AttributeError
              /\ pc' = "except"
         ELSE IF ~contains(file.filename.s, DotFit)
                THEN /\ exc' = NotFitExc
                     /\ pc' = "except"
                ELSE /\ exc' = exc
                     /\ pc' = "read"
    /\ UNCHANGED <<file, contentRead, parseCalled, idx, activity_data, response>>
    /\ UNCHANGED fitVars

\* if not file.filename.endswith('.fit'): raise HTTPException(400, ...)
CheckFilename ==
    /\ pc = "check"
    /\ IF file.filename.none
         THEN /\ exc' = AttributeError
              /\ pc' = "except"
         ELSE IF ~endswith(file.filename.s, DotFit)
                THEN /\ exc' = NotFitExc
                     /\ pc' = "except"
                ELSE /\ exc' = exc
                     /\ pc' = "read"
    /\ UNCHANGED <<file, contentRead, parseCalled, idx, activity_data, response>>
    /\ UNCHANGED fitVars

\* content = await file.read()
ReadContent ==
    /\ pc = "read"
    /\ contentRead' = TRUE
    /\ pc' = "parse"
    /\ UNCHANGED <<file, parseCalled, idx, activity_data, exc, response>>
    /\ UNCHANGED fitVars

\* await file.read() raises
ReadRaises ==
    /\ pc = "read"
    /\ exc' = ReadError
    /\ pc' = "except"
    /\ UNCHANGED <<file, contentRead, parseCalled, idx, activity_data, response>>
    /\ UNCHANGED fitVars

\* activity_data = parse_fit_file(content): entry, FitReader opened, the
\* result dictionary created
ParseOpen ==
    /\ pc = "parse"
    /\ parseCalled' = TRUE
    /\ activity_data' = NewActivityData
    /\ idx' = 0
    /\ pc' = "iter"
    /\ UNCHANGED <<file, contentRead, exc, response>>
    /\ UNCHANGED fitVars

\* Variant of HandleFrame with a catch-all branch that keeps the frame.
HandleFrame_CatchAll(data, frame) ==
    IF frame.frame_type = FIT_FRAME_DATA /\ frame.name \in HandledNames
      THEN data
      ELSE [data EXCEPT !.records = Append(@, frame)]

\* The body of the for loop: every branch is `pass`.
HandleFrame(data, frame) ==
    IF frame.frame_type = FIT_FRAME_DATA
      THEN IF frame.name = "file_id" THEN data
           ELSE IF frame.name = "activity" THEN data
           ELSE IF frame.name = "session" THEN data
           ELSE IF frame.name = "lap" THEN data
           ELSE IF frame.name = "record" THEN data
           ELSE data
      ELSE data

\* for frame in fit_file: one iteration
NextFrame ==
    /\ pc = "iter"
    /\ idx < Len(Stream(file))
    /\ activity_data' = HandleFrame(activity_data, Stream(file)[idx + 1])
    /\ idx' = idx + 1
    /\ UNCHANGED <<pc, file, contentRead, parseCalled, exc, response>>
    /\ UNCHANGED fitVars

\* Variant of ParseRaise whose except clause returns what was assembled so
\* far.
ParseRaise_Swallow ==
    /\ pc = "iter"
    /\ idx = Len(Stream(file))
    /\ file.fault # "none"
    /\ response' = UploadOk(activity_data)
    /\ pc' = "done"
    /\ UNCHANGED <<file, contentRead, parseCalled, idx, activity_data, exc>>
    /\ UNCHANGED fitVars

\* The iterator raises; except Exception as e: raise Exception("Failed to
\* parse FIT file: ...")
ParseRaise ==
    /\ pc = "iter"
    /\ idx = Len(Stream(file))
    /\ file.fault # "none"
    /\ exc' = ParseExc
    /\ pc' = "except"
    /\ UNCHANGED <<file, contentRead, parseCalled, idx, activity_data, response>>
    /\ UNCHANGED fitVars

\* The iterator is exhausted: return activity_data, and the handler returns
\* the success payload.
ParseReturn ==
    /\ pc = "iter"
    /\ idx = Len(Stream(file))
    /\ file.fault = "none"
    /\ response' = UploadOk(activity_data)
    /\ pc' = "done"
    /\ UNCHANGED <<file, contentRead, parseCalled, idx, activity_data, exc>>
    /\ UNCHANGED fitVars

\* except Exception as e: raise HTTPException(500, "Error processing file: ...")
UploadExcept ==
    /\ pc = "except"
    /\ response' = UploadError(exc)
    /\ pc' = "done"
    /\ UNCHANGED <<file, contentRead, parseCalled, idx, activity_data, exc>>
    /\ UNCHANGED fitVars

\* The response is sent; the request's locals are gone.
SendResponse ==
    /\ pc = "done"
    /\ pc' = "idle"
    /\ file' = NoFile
    /\ contentRead' = FALSE
    /\ parseCalled' = FALSE
    /\ idx' = 0
    /\ activity_data' = NewActivityData
    /\ exc' = NoExc
    /\ response' = NoResponse
    /\ UNCHANGED fitVars

\* --------------------------------------------------- POST /process-fit
ActivityIds == {"a1", "a2"}
RequestFileNames == {"ride.fit", "ride.gpx"}
RequestFileSizes == {0, 1}

ProcessRequest ==
    [activityId : ActivityIds, fileName : RequestFileNames, fileSize : RequestFileSizes]

\* datetime.isoformat()
isoformat(t) == <<"iso", t>>

\* speeds are in hundredths of m/s
MockData(now) ==
    [metadata |->
        [device |-> "Garmin Edge 530", sport |-> "cycling",
         startTime |-> isoformat(now),
         totalTime |-> 3600, totalDistance |-> 25000,
         avgSpeed |-> 694, maxSpeed |-> 1250,
         avgHeartRate |-> 150, maxHeartRate |-> 180,
         avgPower |-> 200, maxPower |-> 400,
         calories |-> 800, elevationGain |-> 500, temperature |-> 20],
     records |-> <<>>, laps |-> <<>>, sessions |-> <<>>]

ProcessResponse(data) ==
    [success |-> TRUE, data |-> data, message |-> "FIT file processed successfully"]

LastCalls(log) ==
    IF Len(log) > LogDepth THEN SubSeq(log, Len(log) - LogDepth + 1, Len(log)) ELSE log

\* The whole handler: it has no await, so it runs in one step.
process_fit_file(request) ==
    /\ fit_log' = LastCalls(Append(fit_log,
                    [request |-> request, response |-> ProcessResponse(MockData(clock))]))
    /\ UNCHANGED clock
    /\ UNCHANGED uploadVars

\* Time passes.
Tick ==
    /\ clock < MaxClock
    /\ clock' = clock + 1
    /\ UNCHANGED fit_log
    /\ UNCHANGED uploadVars

\* -------------------------------------------------------- specifications
Next ==
    \/ ReceiveUpload
    \/ CheckFilename
    \/ ReadContent
    \/ ReadRaises
    \/ ParseOpen
    \/ NextFrame
    \/ ParseRaise
    \/ ParseReturn
    \/ UploadExcept
    \/ SendResponse

Spec == Init /\ [][Next]_vars

NextFit ==
    \/ \E r \in ProcessRequest : process_fit_file(r)
    \/ Tick

SpecFit == Init /\ [][NextFit]_vars

\* ---------------------------------------------------------------- claims
ResultParts == {"metadata", "records", "laps", "sessions"}

IsFitName(fn) == ~fn.none /\ endswith(fn.s, DotFit)

IsSuccess(r) == r.status = 200 /\ r.success
IsFailure(r) == r.status >= 400

\* C1: an upload whose filename does not end with ".fit" is rejected before
\* the decoder is invoked: parse_fit_file is never entered for that request
\* (nor is the content read), and the finished request carries a failure
\* response.
C1_RejectedBeforeDecoder ==
    (pc # "idle" /\ ~IsFitName(file.filename)) =>
        /\ ~parseCalled
        /\ ~contentRead
        /\ pc \notin {"read", "parse", "iter"}
        /\ (pc = "done" => IsFailure(response))

C1_Witness ==
    /\ pc = "done"
    /\ file.filename = [none |-> FALSE, s |-> <<"a", ".", "f", "i", "t", ".", "g", "z">>]
    /\ file.body # <<>>
    /\ IsFailure(response)

\* C2: the HTTP layer enforces an upper bound on the accepted file size:
\* there is a bound below the largest size such that a file above it is
\* never read in full and never handed to parse_fit_file.
C2_SizeBoundEnforced ==
    \E bound \in 0..(MaxFrames - 1) :
        FileSize(file) > bound => (~contentRead /\ ~parseCalled)

\* C3: for a request that reached the decoder, a decode that succeeds gives
\* a success payload whose data has exactly the parts metadata, records,
\* laps, sessions, and a decode that fails gives a failure response; never
\* both, never neither.
C3_DecodeOutcomeMapped ==
    (pc = "done" /\ parseCalled) =>
        /\ IsSuccess(response) \/ IsFailure(response)
        /\ ~(IsSuccess(response) /\ IsFailure(response))
        /\ file.fault = "none" =>
              (IsSuccess(response) /\ DOMAIN response.data = ResultParts)
        /\ file.fault # "none" => IsFailure(response)

C3_Witness ==
    /\ pc = "done"
    /\ parseCalled
    /\ file.fault = "body"
    /\ Len(file.body) >= 1
    /\ IsFailure(response)

\* The timestamps of the record frames among the first n frames of a stream.
RECURSIVE RecordTimes(_, _)
RecordTimes(st, n) ==
    IF n = 0 THEN <<>>
    ELSE IF st[n].frame_type = FIT_FRAME_DATA /\ st[n].name = "record"
           THEN Append(RecordTimes(st, n - 1), st[n].timestamp)
           ELSE RecordTimes(st, n - 1)

NonDecreasing(recs) ==
    \A i, j \in 1..Len(recs) : i < j => recs[i].timestamp <= recs[j].timestamp

IsPrefix(a, b) == Len(a) <= Len(b) /\ SubSeq(b, 1, Len(a)) = a

\* The frame the loop is about to handle is a record whose timestamp is
\* below that of an earlier record of the same parse.
FoldsOutOfOrder ==
    /\ pc = "iter"
    /\ idx < Len(Stream(file))
    /\ Stream(file)[idx + 1].frame_type = FIT_FRAME_DATA
    /\ Stream(file)[idx + 1].name = "record"
    /\ \E k \in 1..Len(RecordTimes(Stream(file), idx)) :
          RecordTimes(Stream(file), idx)[k] > Stream(file)[idx + 1].timestamp

Warned(data) == "warnings" \in DOMAIN data /\ data.warnings # <<>>

\* C6: during a parse the records list stays in non-decreasing timestamp
\* order and is append-only, and folding a record with an out-of-order
\* timestamp surfaces a DataIntegrityWarning while the parse goes on.
C6_RecordsOrderedWithWarning ==
    [][ pc = "iter" =>
          /\ NonDecreasing(activity_data'.records)
          /\ IsPrefix(activity_data.records, activity_data'.records)
          /\ FoldsOutOfOrder => (pc' = "iter" /\ Warned(activity_data')) ]_vars

\* C8: two /process-fit calls with the same request give the same response.
C8_SameRequestSameResponse ==
    \A i, j \in DOMAIN fit_log :
        fit_log[i].request = fit_log[j].request =>
            fit_log[i].response = fit_log[j].response

Irrelevant(frame) ==
    \/ frame.frame_type # FIT_FRAME_DATA
    \/ frame.name \notin HandledNames

\* C9: when the next frame is not a data frame, or is a data frame of a type
\* outside file_id, activity, session, lap and record, the step that handles
\* it does not abort the parse and leaves the structured result unchanged.
C9_IrrelevantFramesIgnored ==
    [][ (pc = "iter" /\ idx < Len(Stream(file)) /\ Irrelevant(Stream(file)[idx + 1])) =>
          /\ pc' = "iter"
          /\ idx' = idx + 1
          /\ activity_data' = activity_data ]_vars

C9_Witness ==
    /\ pc = "iter"
    /\ idx = 3
    /\ Stream(file)[2].frame_type = FIT_FRAME_DATA
    /\ Stream(file)[2].name = "event"
    /\ Stream(file)[3].frame_type = FIT_FRAME_DEFINITION
    /\ activity_data = NewActivityData

\* C10: an upload whose filename does not end with ".fit" is answered with
\* status 400 and detail "File must be a .fit file"; status 500 is produced
\* only for failures while reading or parsing the file.
C10_NotFitIs400 ==
    pc = "done" =>
        /\ ~IsFitName(file.filename) =>
              (response.status = 400 /\ response.detail = "File must be a .fit file")
        /\ response.status = 500 => exc.type \in {"ReadError", "Exception"}

====
